---- MODULE Spec2Model ----
(***************************************************************************)
(* Tool-calling orchestration core of the AI IDE agent:                    *)
(*   - AgentExecutor.execute      (src/lib/agent/executor.ts)              *)
(*   - WorkflowManager            (src/lib/agent/workflow.ts)              *)
(*   - CheckpointStore            (src/lib/agent/README.md, checkpoints)   *)
(*   - MemoryManager              (src/lib/agent/memory.ts)                *)
(*   - tool registry              (src/unnamed/part_011, tools)            *)
(*   - approval endpoint POST     (src/app/api/agent/approve/route.ts)     *)
(*   - chat endpoint POST         (src/unnamed/part_003)                   *)
(***************************************************************************)
EXTENDS Integers, Sequences, FiniteSets, TLC

VARIABLES
    exec,         \* one AgentExecutor.execute generator per chat request
    workflows,    \* WorkflowManager.workflows : sessionId -> WorkflowRun
    checkpoints,  \* CheckpointStore.checkpoints : id -> CodeCheckpoint
    memories,     \* InMemoryDatabase.memories : sessionId -> Memory[]
    files,        \* workspace/<sessionId>/<path> -> content
    writes,       \* every fs.writeFile performed, in order
    req,          \* one approval POST handler per approval request
    nextId,       \* source of crypto.randomUUID() values
    recent        \* the last Recent query on the memory and what it returned

vars ==
    <<exec, workflows, checkpoints, memories, files, writes, req, nextId, recent>>

----------------------------------------------------------------------------
(* Bounds of the model *)

\* value of options.maxIterations (executor.ts:192, default 10)
maxIterations == 2
\* limit of the conversation history put into the prompt (executor.ts:173-176)
historyLimit == 20
\* longest tool_calls batch of one model response
MaxBatch == 2
\* chat requests (execute calls) in a behaviour of Spec
MaxTurns == 2
\* approval requests in a behaviour of Spec
MaxRequests == 2
\* entries a session's memory holds at most in SpecMemory
MaxEntries == 2
\* largest limit of a Recent query in SpecMemory
MaxLimit == 2

Sessions == {"A", "B"}
Paths == {"a.txt", "b.txt"}

Turns == 1..MaxTurns
Requests == 1..MaxRequests

----------------------------------------------------------------------------
(* Values *)

\* JavaScript undefined / missing field / absent file
Missing == <<"undefined">>
\* a file's text is a sequence of characters; "bs" is a backslash, "CR" and "LF"
\* are the real line-break characters
Orig == <<"o">>

RECURSIVE replaceAll(_, _, _)
\* String.prototype.replace(/pat/g, rep): leftmost, non-overlapping
replaceAll(str, pat, rep) ==
    IF Len(str) < Len(pat) THEN str
    ELSE IF SubSeq(str, 1, Len(pat)) = pat
         THEN rep \o replaceAll(SubSeq(str, Len(pat) + 1, Len(str)), pat, rep)
         ELSE <<Head(str)>> \o replaceAll(Tail(str), pat, rep)

\* content.replace(/\\r\\n/g, '\r\n').replace(/\\n/g, '\n')
fixNewlines(content) ==
    replaceAll(replaceAll(content, <<"bs", "r", "bs", "n">>, <<"CR", "LF">>),
               <<"bs", "n">>, <<"LF">>)

----------------------------------------------------------------------------
(* WorkflowManager (workflow.ts) *)

NoRun == [id |-> 0, steps |-> <<>>]

\* a step that forgets its parent
newStepOrphan(id, type, status, parentId, checkpointId) ==
    [id |-> id, type |-> type, status |-> status,
     parentId |-> 0, checkpointId |-> checkpointId]

newStep(id, type, status, parentId, checkpointId) ==
    [id |-> id, type |-> type, status |-> status,
     parentId |-> parentId, checkpointId |-> checkpointId]

\* Array.prototype.find over the indices that satisfy the test: the first of
\* them, 0 when there is none
firstIndex(matching) ==
    IF matching = {} THEN 0
    ELSE CHOOSE i \in matching : \A j \in matching : i <= j

\* a start that puts the new root behind the steps of the session's earlier run
startWorkflowKeepsSteps(wf, sessionId, runId, rootId) ==
    [wf EXCEPT ![sessionId] =
        [id |-> runId,
         steps |-> Append(@.steps, newStep(rootId, "task", "in_progress", 0, 0))]]

\* startWorkflow: a new run holding only the new root replaces the session's run
startWorkflow(wf, sessionId, runId, rootId) ==
    [wf EXCEPT ![sessionId] =
        [id |-> runId,
         steps |-> <<newStep(rootId, "task", "in_progress", 0, 0)>>]]

\* startStep: appended to the session's current run, null when there is no run
startStep(wf, sessionId, step) ==
    IF wf[sessionId].id = 0 THEN wf
    ELSE [wf EXCEPT ![sessionId].steps = Append(@, step)]

findStep(wf, sessionId, stepId) ==
    LET steps == wf[sessionId].steps
    IN firstIndex({i \in 1..Len(steps) : steps[i].id = stepId})

findStepByCheckpoint(wf, sessionId, checkpointId) ==
    LET steps == wf[sessionId].steps
    IN firstIndex({i \in 1..Len(steps) : steps[i].checkpointId = checkpointId})

setStatus(wf, sessionId, i, status) ==
    IF i = 0 THEN wf
    ELSE [wf EXCEPT ![sessionId].steps[i].status = status]

\* a completion that is lost
completeStepLost(wf, sessionId, stepId) == wf

completeStep(wf, sessionId, stepId) ==
    setStatus(wf, sessionId, findStep(wf, sessionId, stepId), "completed")

\* a failure that leaves the step's status as it is
failLeavesStatus(wf, sessionId, stepId) == wf

failStep(wf, sessionId, stepId) ==
    setStatus(wf, sessionId, findStep(wf, sessionId, stepId), "error")

\* the checkpoint id taken for a step id
completeByStepId(wf, sessionId, checkpointId) ==
    completeStep(wf, sessionId, checkpointId)

completeByCheckpoint(wf, sessionId, checkpointId) ==
    setStatus(wf, sessionId, findStepByCheckpoint(wf, sessionId, checkpointId),
              "completed")

\* the rejected step marked like an applied one
rejectAsCompleted(wf, sessionId, checkpointId) ==
    setStatus(wf, sessionId, findStepByCheckpoint(wf, sessionId, checkpointId),
              "completed")

rejectByCheckpoint(wf, sessionId, checkpointId) ==
    setStatus(wf, sessionId, findStepByCheckpoint(wf, sessionId, checkpointId),
              "error")

----------------------------------------------------------------------------
(* CheckpointStore (checkpoints) *)

\* create: status defaults to 'pending'
create(cps, id, sessionId, filePath, originalContent, modifiedContent) ==
    cps @@ (id :> [id |-> id, sessionId |-> sessionId, filePath |-> filePath,
                   originalContent |-> originalContent,
                   modifiedContent |-> modifiedContent,
                   status |-> "pending"])

\* get(checkpointId) is undefined for an id the map does not hold
has(cps, checkpointId) == checkpointId \in DOMAIN cps

\* updateStatus: overwrites the status of an existing checkpoint
updateStatus(cps, checkpointId, status) ==
    IF ~has(cps, checkpointId) THEN cps
    ELSE [cps EXCEPT ![checkpointId].status = status]

----------------------------------------------------------------------------
(* MemoryManager (memory.ts) *)

\* an addMemory that puts the entry in front of the older ones
addMemoryFirst(mem, sessionId, type, role, content) ==
    [mem EXCEPT ![sessionId] =
        <<[type |-> type, role |-> role, content |-> content]>> \o @]

addMemory(mem, sessionId, type, role, content) ==
    [mem EXCEPT ![sessionId] =
        Append(@, [type |-> type, role |-> role, content |-> content])]

\* clearSession: the session's entries are deleted
clearSession(mem, sessionId) == [mem EXCEPT ![sessionId] = <<>>]

\* Array.prototype.slice(begin): a negative begin counts from the end, and
\* slice(-0) is slice(0)
slice(arr, begin) ==
    LET k == IF begin < 0
             THEN (IF Len(arr) + begin > 0 THEN Len(arr) + begin ELSE 0)
             ELSE (IF begin < Len(arr) THEN begin ELSE Len(arr))
    IN SubSeq(arr, k + 1, Len(arr))

\* getMemoriesByType: filter(m => m.type === type).slice(-limit)
getMemoriesByType(mem, sessionId, type, limit) ==
    LET IsType(m) == m.type = type
    IN slice(SelectSeq(mem[sessionId], IsType), 0 - limit)

\* getRecentConversations(sessionId, limit)
getRecentConversations(mem, sessionId, limit) ==
    getMemoriesByType(mem, sessionId, "conversation", limit)

\* no Recent query was made yet
NoQuery == [sessionId |-> "", type |-> "", limit |-> 0, result |-> <<>>]

\* the entries AgentExecutor.execute adds: the user message, the assistant's
\* response, the record of a tool call
MemoryEntries ==
    {[type |-> "conversation", role |-> "user", content |-> <<"m">>],
     [type |-> "conversation", role |-> "assistant", content |-> <<"t">>],
     [type |-> "file_operation", role |-> "tool", content |-> <<"read_file">>]}

MemoryTypes == {"conversation", "file_operation"}

----------------------------------------------------------------------------
(* Tool registry (tools) and the model's tool_calls *)

\* TOOLS: the registered names the model is given (file tools of the registry)
TOOLS == {"read_file", "write_file", "apply_patch"}

\* a tool_call of a model response. args is "malformed" when
\* function.arguments is not JSON; result is what the patch turns the file into
\* and applies tells whether applyPatch succeeds on the file
toolCall(name, args, path, content, applies) ==
    [name |-> name, args |-> args, path |-> path, content |-> content,
     applies |-> applies]

writeFileCall(path, content) == toolCall("write_file", "ok", path, content, TRUE)
readFileCall(path) == toolCall("read_file", "ok", path, <<>>, TRUE)
applyPatchCall(path, content, applies) ==
    toolCall("apply_patch", "ok", path, content, applies)
unknownCall == toolCall("no_such_tool", "ok", "a.txt", <<>>, TRUE)
malformedCall(name) == toolCall(name, "malformed", "a.txt", <<>>, TRUE)

\* readFileTool.execute / applyPatchTool.execute: does the call return (TRUE) or
\* throw (FALSE) on the workspace as it is
toolSucceeds(fs, sessionId, call) ==
    CASE call.name = "read_file" -> fs[<<sessionId, call.path>>] # Missing
      [] call.name = "apply_patch" ->
            fs[<<sessionId, call.path>>] # Missing /\ call.applies
      [] OTHER -> TRUE

\* the files a tool's execute writes: apply_patch writes the patched content
toolWrites(call) == call.name = "apply_patch"

----------------------------------------------------------------------------
(* Events of a turn *)

\* reason is the content of an error event, "" for the other types; data holds
\* the file path and contents of an approval_required event, whose data.id is
\* checkpointId
event(type, tool, checkpointId) ==
    [type |-> type, tool |-> tool, checkpointId |-> checkpointId, reason |-> "",
     data |-> <<>>]

\* lines 340-349: the approval_required event of a checkpoint
approvalRequired(checkpoint) ==
    [event("approval_required", "write_file", checkpoint.id) EXCEPT
        !.data = [filePath |-> checkpoint.filePath,
                  originalContent |-> checkpoint.originalContent,
                  modifiedContent |-> checkpoint.modifiedContent]]

\* an error event: content is the message of the error, data.tool the tool's name
errorEvent(tool, reason) ==
    [event("error", tool, 0) EXCEPT !.reason = reason]

messageEvent == event("message", "none", 0)
doneEvent == event("done", "none", 0)
\* the error event of the max-iteration exit; like that of the outer catch it
\* carries no tool
turnError == errorEvent("none", "max iterations")
\* an error event that does not say what failed
errorWithoutReason(reason) == errorEvent("none", "")

\* the error event of the outer catch: content is error.message
caughtError(reason) == errorEvent("none", reason)

\* messages thrown by streamChat: the two it throws before any chunk, and a
\* failure of fetch or of reader.read
LLMErrors == {"LLM API error", "No response body", "fetch failed"}

\* an entry of the prompt state `messages`
message(role, content, toolCallId, name) ==
    [role |-> role, content |-> content, tool_call_id |-> toolCallId,
     name |-> name]

NoCallId == <<0, 0>>
systemPrompt == message("system", "systemPrompt", NoCallId, "")
userMessage == message("user", <<"m">>, NoCallId, "")
\* the system message pushed after a read_file result
writeDemand == message("system", "must call write_file", NoCallId, "")

writeRecord(by, sessionId, path, content, checkpointId) ==
    [by |-> by, sessionId |-> sessionId, path |-> path, content |-> content,
     checkpointId |-> checkpointId]

----------------------------------------------------------------------------
(* AgentExecutor.execute (executor.ts) *)

idleExec ==
    [pc |-> "idle", session |-> "", iterations |-> 0, calls |-> <<>>,
     events |-> <<>>, root |-> 0, step |-> 0, fullResponse |-> <<>>,
     llmCalls |-> 0, toolExecs |-> 0, natural |-> 0, ordinaryOnly |-> TRUE,
     messages |-> <<>>, batch |-> <<>>]

\* toolCall.id of the call being processed: the iteration of the response and
\* the call's position in its tool_calls
toolCallId(e) == <<e.iterations, Len(e.batch) - Len(e.calls) + 1>>

\* the role 'tool' message pushed for the call being processed
toolMessage(e, content) ==
    message("tool", content, toolCallId(e), Head(e.calls).name)

\* lines 173-186: the system prompt, the recent conversation entries, the user
\* message
initialMessages(mem, sessionId) ==
    LET recentMemories == getRecentConversations(mem, sessionId, historyLimit)
    IN <<systemPrompt>>
       \o [i \in 1..Len(recentMemories) |->
              message(recentMemories[i].role, recentMemories[i].content,
                      NoCallId, "")]
       \o <<userMessage>>

\* the calls still to process after the current one, and where control goes
afterCall(e) ==
    [e EXCEPT !.calls = Tail(@),
              !.step = 0,
              !.pc = IF Tail(e.calls) = <<>> THEN "loop" ELSE "tools"]

\* lines 150-193: startWorkflow, the user message into memory, iterations = 0.
\* inFlight is the set of turns that must have ended before this one starts.
StartTurn(t, s, inFlight) ==
    /\ exec[t].pc = "idle"
    /\ \A u \in 1..(t - 1) : exec[u].pc # "idle"
    /\ \A u \in inFlight : exec[u].pc \in {"idle", "ended"}
    /\ workflows' = startWorkflow(workflows, s, nextId, nextId + 1)
    /\ nextId' = nextId + 2
    /\ memories' = addMemory(memories, s, "conversation", "user", <<"m">>)
    /\ exec' = [exec EXCEPT ![t] =
                  [idleExec EXCEPT !.pc = "loop", !.session = s,
                                   !.root = nextId + 1,
                                   !.messages = initialMessages(memories', s)]]
    /\ UNCHANGED <<checkpoints, files, writes, req, recent>>

\* lines 195-279: one iteration's streaming completion; text tells whether the
\* model streamed a delta, calls are the tool_calls it returned
LLMRespond(t, text, calls) ==
    LET e == exec[t]
        got == [e EXCEPT !.iterations = @ + 1,
                         !.llmCalls = @ + 1,
                         !.events = IF text THEN Append(@, messageEvent) ELSE @,
                         !.fullResponse = IF text THEN Append(@, "t") ELSE @,
                         !.messages =
                             IF text
                             THEN Append(@, message("assistant", <<"t">>,
                                                    NoCallId, ""))
                             ELSE @,
                         !.batch = calls,
                         !.ordinaryOnly =
                             /\ @
                             /\ calls # <<>>
                             /\ \A i \in 1..Len(calls) :
                                    calls[i].name # "write_file"]
    IN /\ e.pc = "loop"
       /\ e.iterations < maxIterations
       /\ IF calls = <<>>
          THEN /\ memories' = addMemory(memories, e.session, "conversation",
                                        "assistant", got.fullResponse)
               /\ workflows' = completeStep(workflows, e.session, e.root)
               /\ exec' = [exec EXCEPT ![t] =
                             [got EXCEPT !.events = Append(@, doneEvent),
                                         !.natural = got.iterations,
                                         !.pc = "exit"]]
          ELSE /\ exec' = [exec EXCEPT ![t] =
                             [got EXCEPT !.calls = calls, !.pc = "tools"]]
               /\ UNCHANGED <<memories, workflows>>
       /\ UNCHANGED <<checkpoints, files, writes, req, nextId, recent>>

\* lines 214-235 throwing (llm.ts:74-91), caught at lines 526-544; text tells
\* whether deltas were streamed before the failure
LLMFail(t, text, reason) ==
    LET e == exec[t]
    IN /\ e.pc = "loop"
       /\ e.iterations < maxIterations
       /\ text => reason = "fetch failed"
       /\ workflows' = failStep(workflows, e.session, e.root)
       /\ exec' = [exec EXCEPT ![t] =
                     [e EXCEPT !.iterations = @ + 1,
                               !.llmCalls = @ + 1,
                               !.ordinaryOnly = FALSE,
                               !.events = (IF text THEN Append(@, messageEvent)
                                           ELSE @) \o <<caughtError(reason)>>,
                               !.pc = "ended"]]
       /\ UNCHANGED <<checkpoints, memories, files, writes, req, nextId, recent>>

\* lines 284-290 throwing on arguments that are not JSON, caught at 526-544
parseFailure(t) ==
    LET e == exec[t]
    IN /\ workflows' = failStep(workflows, e.session, e.root)
       /\ exec' = [exec EXCEPT ![t] =
                     [e EXCEPT !.events = Append(@, caughtError("not JSON")),
                               !.pc = "ended"]]
       /\ UNCHANGED <<checkpoints, memories, files, writes, nextId>>

\* lines 292-365: the write_file branch; its break leaves the for loop only
proposeWrite(t) ==
    LET e == exec[t]
        c == Head(e.calls)
        current == files[<<e.session, c.path>>]
        originalContent == IF current = Missing THEN <<>> ELSE current
        id == nextId
    IN /\ checkpoints' = create(checkpoints, id, e.session, c.path,
                                fixNewlines(originalContent),
                                fixNewlines(c.content))
       /\ workflows' = startStep(workflows, e.session,
                                 newStep(id + 1, "checkpoint", "pending",
                                         e.root, id))
       /\ nextId' = nextId + 2
       /\ exec' = [exec EXCEPT ![t] =
                     [e EXCEPT !.events = @ \o <<approvalRequired(checkpoints'[id]),
                                                  doneEvent>>,
                               !.messages = Append(@, toolMessage(e, "submitted")),
                               !.calls = <<>>,
                               !.pc = "loop"]]
       /\ UNCHANGED <<memories, files, writes>>

\* lines 367-409 for a name TOOLS does not hold: tool_call, step, throw, catch
unknownTool(t) ==
    LET e == exec[t]
        c == Head(e.calls)
        started == startStep(workflows, e.session,
                             newStep(nextId, "tool", "in_progress", e.root, 0))
    IN /\ workflows' = failStep(started, e.session, nextId)
       /\ nextId' = nextId + 1
       /\ exec' = [exec EXCEPT ![t] =
                     afterCall([e EXCEPT
                                   !.events =
                                      @ \o <<event("tool_call", c.name, 0),
                                             errorEvent(c.name, "Unknown tool")>>,
                                   !.messages =
                                      Append(@, toolMessage(e, "error"))])]
       /\ UNCHANGED <<checkpoints, memories, files, writes>>

\* lines 367-414: tool_call event, the tool's step, and tool.execute started
startTool(t) ==
    LET e == exec[t]
        c == Head(e.calls)
    IN /\ workflows' = startStep(workflows, e.session,
                                 newStep(nextId, "tool", "in_progress",
                                         e.root, 0))
       /\ nextId' = nextId + 1
       /\ exec' = [exec EXCEPT ![t] =
                     [e EXCEPT !.events = Append(@, event("tool_call", c.name, 0)),
                               !.step = nextId,
                               !.toolExecs = @ + 1,
                               !.pc = "executing"]]
       /\ UNCHANGED <<checkpoints, memories, files, writes>>

\* lines 284-414: the next tool call of the batch
ToolDispatch(t) ==
    /\ exec[t].pc = "tools"
    /\ LET c == Head(exec[t].calls)
       IN CASE c.args = "malformed" -> parseFailure(t)
            [] c.args # "malformed" /\ c.name = "write_file" -> proposeWrite(t)
            [] c.args # "malformed" /\ c.name \notin TOOLS -> unknownTool(t)
            [] OTHER -> startTool(t)
    /\ UNCHANGED <<req, recent>>

\* lines 411-464: tool.execute returned
ToolReturn(t) ==
    LET e == exec[t]
        c == Head(e.calls)
    IN /\ e.pc = "executing"
       /\ toolSucceeds(files, e.session, c)
       /\ IF toolWrites(c)
          THEN /\ files' = [files EXCEPT ![<<e.session, c.path>>] = c.content]
               /\ writes' = Append(writes, writeRecord("tool", e.session, c.path,
                                                       c.content, 0))
          ELSE UNCHANGED <<files, writes>>
       /\ workflows' = completeStep(workflows, e.session, e.step)
       /\ memories' = addMemory(memories, e.session, "file_operation", "tool",
                                <<c.name>>)
       /\ exec' = [exec EXCEPT ![t] =
                     afterCall([e EXCEPT
                                   !.events =
                                      Append(@, event("tool_result", c.name, 0)),
                                   !.messages =
                                      Append(@, toolMessage(e, "result"))
                                      \o (IF c.name = "read_file"
                                          THEN <<writeDemand>> ELSE <<>>)])]
       /\ UNCHANGED <<checkpoints, req, nextId, recent>>

\* a tool failure that emits no event
ToolThrowSilent(t) ==
    LET e == exec[t]
    IN /\ e.pc = "executing"
       /\ ~toolSucceeds(files, e.session, Head(e.calls))
       /\ workflows' = failStep(workflows, e.session, e.step)
       /\ exec' = [exec EXCEPT ![t] =
                     afterCall([e EXCEPT !.messages =
                                   Append(@, toolMessage(e, "error"))])]
       /\ UNCHANGED <<checkpoints, memories, files, writes, req, nextId, recent>>

\* lines 465-500: tool.execute threw
ToolThrow(t) ==
    LET e == exec[t]
        c == Head(e.calls)
    IN /\ e.pc = "executing"
       /\ ~toolSucceeds(files, e.session, c)
       /\ workflows' = failStep(workflows, e.session, e.step)
       /\ exec' = [exec EXCEPT ![t] =
                     afterCall([e EXCEPT
                                   !.events =
                                      Append(@, errorEvent(c.name, "tool failed")),
                                   !.messages =
                                      Append(@, toolMessage(e, "error"))])]
       /\ UNCHANGED <<checkpoints, memories, files, writes, req, nextId, recent>>

\* an execute that never returns once its loop is over
PostLoopHangs(t) ==
    /\ \/ exec[t].pc = "exit"
       \/ exec[t].pc = "loop" /\ exec[t].iterations >= maxIterations
    /\ UNCHANGED vars

\* lines 504-525: after the while loop
PostLoop(t) ==
    LET e == exec[t]
    IN /\ \/ e.pc = "exit"
          \/ e.pc = "loop" /\ e.iterations >= maxIterations
       /\ IF e.iterations >= maxIterations
          THEN /\ workflows' = failStep(workflows, e.session, e.root)
               /\ exec' = [exec EXCEPT ![t] =
                             [e EXCEPT !.events = Append(@, turnError),
                                       !.pc = "ended"]]
          ELSE /\ exec' = [exec EXCEPT ![t].pc = "ended"]
               /\ UNCHANGED workflows
       /\ UNCHANGED <<checkpoints, memories, files, writes, req, nextId, recent>>

----------------------------------------------------------------------------
(* Approval endpoint POST (app/api/agent/approve/route.ts) *)

\* a missing / empty string field of the request body
NoString == ""

idleReq ==
    [pc |-> "idle", sessionId |-> NoString, filePath |-> NoString,
     content |-> Missing, approved |-> FALSE, checkpointId |-> 0,
     http |-> 0, seen |-> "none", wrote |-> FALSE, changed |-> FALSE]

approvalBody(sessionId, filePath, content, approved, checkpointId) ==
    [sessionId |-> sessionId, filePath |-> filePath, content |-> content,
     approved |-> approved, checkpointId |-> checkpointId]

\* ChatPanel.tsx:629-686: the body the client sends for the pending change
clientBody(cp, approved) ==
    approvalBody(cp.sessionId, cp.filePath,
                 IF approved THEN cp.modifiedContent ELSE Missing,
                 approved, cp.id)

\* lines 10-47: parse, validate, look up, reject or go on to write
ApprovePost(r, body) ==
    LET q == [req[r] EXCEPT !.sessionId = body.sessionId,
                            !.filePath = body.filePath,
                            !.content = body.content,
                            !.approved = body.approved,
                            !.checkpointId = body.checkpointId]
        answer(code) == [q EXCEPT !.pc = "done", !.http = code]
        found == [q EXCEPT !.seen = checkpoints[body.checkpointId].status]
    IN /\ req[r].pc = "idle"
       /\ \A u \in 1..(r - 1) : req[u].pc # "idle"
       /\ IF \/ body.sessionId = NoString
             \/ body.filePath = NoString
             \/ body.checkpointId = 0
          THEN /\ req' = [req EXCEPT ![r] = answer(400)]
               /\ UNCHANGED <<checkpoints, workflows>>
          ELSE IF ~has(checkpoints, body.checkpointId)
          THEN /\ req' = [req EXCEPT ![r] = answer(404)]
               /\ UNCHANGED <<checkpoints, workflows>>
          ELSE IF ~body.approved
          THEN /\ checkpoints' = updateStatus(checkpoints, body.checkpointId,
                                              "rejected")
               /\ workflows' = rejectByCheckpoint(workflows, body.sessionId,
                                                  body.checkpointId)
               /\ req' = [req EXCEPT ![r] =
                            [found EXCEPT !.pc = "done", !.http = 200,
                                          !.changed = found.seen = "pending"]]
          ELSE IF body.content = Missing
          THEN /\ req' = [req EXCEPT ![r] =
                            [found EXCEPT !.pc = "done", !.http = 400]]
               /\ UNCHANGED <<checkpoints, workflows>>
          ELSE /\ req' = [req EXCEPT ![r] = [found EXCEPT !.pc = "writing"]]
               /\ UNCHANGED <<checkpoints, workflows>>
       /\ UNCHANGED <<exec, memories, files, writes, nextId, recent>>

\* lines 49-58: mkdir and writeFile of the request's content at the request's
\* path under the request's session workspace
ApproveWrite(r) ==
    LET q == req[r]
        fixedContent == fixNewlines(q.content)
    IN /\ q.pc = "writing"
       /\ files' = [files EXCEPT ![<<q.sessionId, q.filePath>>] = fixedContent]
       /\ writes' = Append(writes, writeRecord("approve", q.sessionId,
                                               q.filePath, fixedContent,
                                               q.checkpointId))
       /\ req' = [req EXCEPT ![r] = [q EXCEPT !.pc = "written", !.wrote = TRUE]]
       /\ UNCHANGED <<exec, workflows, checkpoints, memories, nextId, recent>>

\* lines 57-58 throwing (the path cannot be written), caught at lines 68-71
ApproveWriteFail(r) ==
    /\ req[r].pc = "writing"
    /\ req' = [req EXCEPT ![r] = [@ EXCEPT !.pc = "done", !.http = 500]]
    /\ UNCHANGED <<exec, workflows, checkpoints, memories, files, writes, nextId,
                   recent>>

\* lines 60-67: after the write
ApproveFinish(r) ==
    LET q == req[r]
    IN /\ q.pc = "written"
       /\ checkpoints' = updateStatus(checkpoints, q.checkpointId, "applied")
       /\ workflows' = completeByCheckpoint(workflows, q.sessionId,
                                            q.checkpointId)
       /\ req' = [req EXCEPT ![r] =
                    [q EXCEPT !.pc = "done", !.http = 200,
                              !.changed =
                                  /\ has(checkpoints, q.checkpointId)
                                  /\ checkpoints[q.checkpointId].status = "pending"]]
       /\ UNCHANGED <<exec, memories, files, writes, nextId, recent>>

----------------------------------------------------------------------------
(* Inputs *)

RECURSIVE seqsUpTo(_, _)
\* the sequences over S of length at most n
seqsUpTo(S, n) ==
    IF n = 0 THEN {<<>>}
    ELSE LET shorter == seqsUpTo(S, n - 1)
         IN shorter \cup {Append(q, x) : q \in shorter, x \in S}

\* tool calls the model may return in a turn of SpecTurn
TurnCalls ==
    {writeFileCall("a.txt", <<"x">>),
     readFileCall("a.txt"),
     readFileCall("b.txt"),
     unknownCall,
     malformedCall("read_file")}

\* batches the model may return in Spec, where approvals run next to the turns
SessionBatches ==
    {<<>>,
     <<writeFileCall("a.txt", <<"x", "bs", "n", "y">>)>>,
     <<applyPatchCall("a.txt", <<"p">>, TRUE)>>}

otherSession(s) == CHOOSE o \in Sessions : o # s

\* approval requests: the client's, and ones that differ from it in one field
approvalBodies ==
    UNION {{clientBody(checkpoints[id], TRUE),
            clientBody(checkpoints[id], FALSE),
            [clientBody(checkpoints[id], FALSE) EXCEPT
                !.sessionId = otherSession(@)],
            [clientBody(checkpoints[id], TRUE) EXCEPT !.content = Missing]}
           : id \in DOMAIN checkpoints}
    \cup {approvalBody("A", NoString, Missing, FALSE, 1),
          approvalBody("A", "a.txt", Missing, FALSE, 1)}

\* responses of the model in SpecTurn: every batch of up to MaxBatch tool calls;
\* a response that streams text carries at most one tool call
TurnResponses ==
    {rsp \in [text : BOOLEAN, calls : seqsUpTo(TurnCalls, MaxBatch)] :
        rsp.text => Len(rsp.calls) <= 1}

\* responses of the model in Spec: text exactly when there is no tool call
SessionResponses ==
    {[text |-> calls = <<>>, calls |-> calls] : calls \in SessionBatches}

\* the streaming completion of turn t answers with one of the responses
Completion(t, responses) ==
    \E rsp \in responses : LLMRespond(t, rsp.text, rsp.calls)

\* an approval request arrives
ApproveRequest(r) ==
    \E body \in approvalBodies : ApprovePost(r, body)

\* memoryManager.addMemory called with one of the executor's entries
AddEntry(s, entry) ==
    /\ Len(memories[s]) < MaxEntries
    /\ memories' = addMemory(memories, s, entry.type, entry.role, entry.content)
    /\ UNCHANGED <<exec, workflows, checkpoints, files, writes, req, nextId,
                   recent>>

\* AgentExecutor.clearSession -> memoryManager.clearSession
ClearSession(s) ==
    /\ memories' = clearSession(memories, s)
    /\ UNCHANGED <<exec, workflows, checkpoints, files, writes, req, nextId,
                   recent>>

\* a Recent query: db.getMemoriesByType(sessionId, type, limit)
Recent(s, type, limit) ==
    /\ recent' = [sessionId |-> s, type |-> type, limit |-> limit,
                  result |-> getMemoriesByType(memories, s, type, limit)]
    /\ UNCHANGED <<exec, workflows, checkpoints, memories, files, writes, req,
                   nextId>>

----------------------------------------------------------------------------
(* Specifications *)

Init ==
    /\ exec = [t \in Turns |-> idleExec]
    /\ workflows = [s \in Sessions |-> NoRun]
    /\ checkpoints = <<>>
    /\ memories = [s \in Sessions |-> <<>>]
    /\ files = [f \in Sessions \X Paths |->
                  IF f[2] = "a.txt" THEN Orig ELSE Missing]
    /\ writes = <<>>
    /\ req = [r \in Requests |-> idleReq]
    /\ nextId = 1
    /\ recent = NoQuery

\* chat requests arrive one after another; approval requests arrive at any time
Next ==
    \/ \E t \in Turns, s \in Sessions : StartTurn(t, s, Turns)
    \/ \E t \in Turns : Completion(t, SessionResponses)
    \/ \E t \in Turns : ToolDispatch(t)
    \/ \E t \in Turns : ToolReturn(t)
    \/ \E t \in Turns : PostLoop(t)
    \/ \E r \in Requests : ApproveRequest(r)
    \/ \E r \in Requests : ApproveWrite(r)
    \/ \E r \in Requests : ApproveWriteFail(r)
    \/ \E r \in Requests : ApproveFinish(r)

Spec == Init /\ [][Next]_vars

\* one turn of session A
NextTurn ==
    \/ StartTurn(1, "A", {})
    \/ Completion(1, TurnResponses)
    \/ \E text \in BOOLEAN, reason \in LLMErrors : LLMFail(1, text, reason)
    \/ ToolDispatch(1)
    \/ ToolReturn(1)
    \/ ToolThrow(1)
    \/ PostLoop(1)

SpecTurn == Init /\ [][NextTurn]_vars

\* the memory on its own: the operations of MemoryManager on the empty store
NextMemory ==
    \/ \E s \in Sessions, entry \in MemoryEntries : AddEntry(s, entry)
    \/ \E s \in Sessions : ClearSession(s)
    \/ \E s \in Sessions, type \in MemoryTypes, limit \in 0..MaxLimit :
          Recent(s, type, limit)

SpecMemory == Init /\ [][NextMemory]_vars

\* the steps of the running turn: the chat route drains the generator
\* (part_003:46-64), so execute is resumed after every event, and every model
\* call and tool execution returns or fails
TurnProgress ==
    \/ Completion(1, TurnResponses)
    \/ \E text \in BOOLEAN, reason \in LLMErrors : LLMFail(1, text, reason)
    \/ ToolDispatch(1)
    \/ ToolReturn(1)
    \/ ToolThrow(1)
    \/ PostLoop(1)

SpecTurnFair == SpecTurn /\ WF_vars(TurnProgress)

\* the turns and approvals of Spec, and sessions that are cleared at any time
NextSessions ==
    \/ Next
    \/ \E s \in Sessions : ClearSession(s)

SpecSessions == Init /\ [][NextSessions]_vars

\* what a workspace file holds when a turn starts: nothing, the empty text, a
\* text without escapes, texts that hold the two characters backslash and n
FileContents ==
    {Missing, <<>>, Orig, <<"o", "bs", "n">>, <<"bs", "r", "bs", "n", "o">>}

\* content arguments of a write_file call
ProposedContents == {<<"x">>, <<"x", "bs", "n", "y">>, <<"bs", "r", "bs", "n">>}

\* responses of the model in SpecPropose: text, a write_file call, or a
\* read_file call followed by a write_file call
ProposeResponses ==
    {[text |-> TRUE, calls |-> <<>>]}
    \cup {[text |-> FALSE, calls |-> <<writeFileCall(p, c)>>] :
             p \in Paths, c \in ProposedContents}
    \cup {[text |-> FALSE, calls |-> <<readFileCall(p), writeFileCall(p, c)>>] :
             p \in Paths, c \in ProposedContents}

\* the workspace of session A holds any of the file contents
InitPropose ==
    /\ exec = [t \in Turns |-> idleExec]
    /\ workflows = [s \in Sessions |-> NoRun]
    /\ checkpoints = <<>>
    /\ memories = [s \in Sessions |-> <<>>]
    /\ files \in {f \in [Sessions \X Paths -> FileContents] :
                     \A p \in Paths : f[<<"B", p>>] = Missing}
    /\ writes = <<>>
    /\ req = [r \in Requests |-> idleReq]
    /\ nextId = 1
    /\ recent = NoQuery

\* one turn of session A that proposes writes
NextPropose ==
    \/ StartTurn(1, "A", {})
    \/ Completion(1, ProposeResponses)
    \/ ToolDispatch(1)
    \/ ToolReturn(1)
    \/ ToolThrow(1)
    \/ PostLoop(1)

SpecPropose == InitPropose /\ [][NextPropose]_vars

\* a content the model did not propose
OtherContent == <<"z">>

\* approval requests any client can send for an existing checkpoint: the body
\* fields are the sender's choice (route.ts:12), so approvals with any session,
\* path and content, and the client's rejection
requestBodies ==
    UNION {{approvalBody(s, p, c, TRUE, id) :
               s \in Sessions, p \in Paths,
               c \in {checkpoints[id].modifiedContent, OtherContent}}
           \cup {clientBody(checkpoints[id], FALSE)}
           : id \in DOMAIN checkpoints}

\* an approval request with any body arrives
ApproveAnyRequest(r) ==
    \E body \in requestBodies : ApprovePost(r, body)

\* responses of the model in SpecApproval: text, or one write_file call
ApprovalResponses ==
    {[text |-> TRUE, calls |-> <<>>],
     [text |-> FALSE, calls |-> <<writeFileCall("a.txt", <<"x", "bs", "n", "y">>)>>]}

\* one turn of session A proposing writes, and approval requests with any body
NextApproval ==
    \/ StartTurn(1, "A", {})
    \/ Completion(1, ApprovalResponses)
    \/ ToolDispatch(1)
    \/ PostLoop(1)
    \/ \E r \in Requests : ApproveAnyRequest(r)
    \/ \E r \in Requests : ApproveWrite(r)
    \/ \E r \in Requests : ApproveWriteFail(r)
    \/ \E r \in Requests : ApproveFinish(r)

SpecApproval == Init /\ [][NextApproval]_vars

\* chat requests of session A that arrive while an earlier one is still being
\* served: the route builds an executor per request and nothing makes a
\* request wait for the turn in flight
NextOverlap ==
    \/ \E t \in Turns : StartTurn(t, "A", {})
    \/ \E t \in Turns : Completion(t, SessionResponses)
    \/ \E t \in Turns : ToolDispatch(t)
    \/ \E t \in Turns : ToolReturn(t)
    \/ \E t \in Turns : PostLoop(t)

SpecOverlap == Init /\ [][NextOverlap]_vars

----------------------------------------------------------------------------
(* Properties *)

\* the number of events of the type that turn t has emitted
eventsOf(t, type) ==
    Cardinality({i \in 1..Len(exec[t].events) : exec[t].events[i].type = type})

\* the root step of turn t, as the session's run holds it (0: not in the run)
rootStatus(t) ==
    LET i == findStep(workflows, exec[t].session, exec[t].root)
    IN IF i = 0 THEN "gone" ELSE workflows[exec[t].session].steps[i].status

\* the number of file writes approval requests made for the checkpoint
writesFor(checkpointId) ==
    Cardinality({i \in 1..Len(writes) :
                    /\ writes[i].by = "approve"
                    /\ writes[i].checkpointId = checkpointId})

\* C1 (as claimed): once a turn has emitted approval_required it has emitted
\* exactly one approval_required and exactly one done, these are its last two
\* events, and from then on the turn opens no model call, executes no tool and
\* emits no event.
MutationShortCircuit ==
    [][\A t \in Turns :
          eventsOf(t, "approval_required") > 0 =>
             /\ eventsOf(t, "approval_required") = 1
             /\ eventsOf(t, "done") = 1
             /\ exec[t].events[Len(exec[t].events)].type = "done"
             /\ exec'[t].llmCalls = exec[t].llmCalls
             /\ exec'[t].toolExecs = exec[t].toolExecs
             /\ exec'[t].events = exec[t].events]_vars

\* C2 (as claimed): no file is written by a tool the model called; every write
\* is the write of an approval request.
ApprovalGate ==
    \A i \in 1..Len(writes) : writes[i].by # "tool"

\* C3 (as claimed): a checkpoint that is applied or rejected keeps its status
\* in every later step.
CheckpointTransitions ==
    [][\A id \in DOMAIN checkpoints :
          checkpoints[id].status # "pending" =>
             checkpoints'[id].status = checkpoints[id].status]_vars

\* C4 (as claimed): an approval that finds its checkpoint already applied is
\* answered with a conflict, leaves the status applied and writes nothing, so
\* the file is written once in total.
CheckpointIdempotence ==
    \A r \in Requests :
        (req[r].approved /\ req[r].seen = "applied") =>
            /\ req[r].pc = "done"
            /\ req[r].http = 409
            /\ ~req[r].wrote
            /\ checkpoints[req[r].checkpointId].status = "applied"
            /\ writesFor(req[r].checkpointId) = 1

\* C5 (as claimed): of two approvals that both looked the same checkpoint up
\* while it was pending, at most one writes the file and at most one changes
\* the status from pending.
ResolveIsCompareAndSwap ==
    \A r1, r2 \in Requests :
        (/\ r1 # r2
         /\ req[r1].approved /\ req[r2].approved
         /\ req[r1].checkpointId = req[r2].checkpointId
         /\ req[r1].seen = "pending" /\ req[r2].seen = "pending") =>
            /\ ~(req[r1].wrote /\ req[r2].wrote)
            /\ ~(req[r1].changed /\ req[r2].changed)

\* the step with this checkpointId in the session's current run has the status
stepOfCheckpointIs(wf, sessionId, checkpointId, status) ==
    LET i == findStepByCheckpoint(wf, sessionId, checkpointId)
    IN i # 0 /\ wf[sessionId].steps[i].status = status

\* request r is received in this step, naming all three required fields and an
\* existing checkpoint, with approved = false
rejectionPosted(r) ==
    /\ req[r].pc = "idle"
    /\ req'[r].pc # "idle"
    /\ req'[r].sessionId # NoString
    /\ req'[r].filePath # NoString
    /\ req'[r].checkpointId \in DOMAIN checkpoints
    /\ ~req'[r].approved

\* request r, approved, returns from its file write in this step
approvalFinished(r) ==
    /\ req[r].pc = "written"
    /\ req'[r].pc = "done"

\* C6: a well-formed request with approved = false for a pending checkpoint
\* whose step is in the current run of the session it names sets the checkpoint
\* to rejected and that step to error, and writes no file.
RejectionEffect ==
    [][\A r \in Requests :
          LET id == req'[r].checkpointId
              s == req'[r].sessionId
          IN (/\ rejectionPosted(r)
              /\ checkpoints[id].status = "pending"
              /\ findStepByCheckpoint(workflows, s, id) # 0) =>
                 /\ req'[r].pc = "done" /\ req'[r].http = 200
                 /\ checkpoints'[id].status = "rejected"
                 /\ stepOfCheckpointIs(workflows', s, id, "error")
                 /\ writes' = writes
                 /\ files' = files]_vars

\* C6 witness: a rejection of a pending checkpoint was processed and its step
\* is in the run
RejectionHappened ==
    \E r \in Requests :
        /\ req[r].pc = "done" /\ req[r].http = 200 /\ ~req[r].approved
        /\ req[r].seen = "pending"
        /\ checkpoints[req[r].checkpointId].status = "rejected"
        /\ stepOfCheckpointIs(workflows, req[r].sessionId, req[r].checkpointId,
                              "error")

stepStatusFor(status) == IF status = "applied" THEN "completed" ELSE "error"

\* C7 (as claimed): a resolved checkpoint, every request for which named the
\* checkpoint's own session, has its step in that session's run with the
\* corresponding status.
StepFollowsCheckpoint ==
    \A id \in DOMAIN checkpoints :
        (/\ checkpoints[id].status # "pending"
         /\ \A r \in Requests :
               req[r].checkpointId = id =>
                  /\ req[r].sessionId = checkpoints[id].sessionId
                  /\ req[r].pc \in {"idle", "done"}) =>
            stepOfCheckpointIs(workflows, checkpoints[id].sessionId, id,
                               stepStatusFor(checkpoints[id].status))

\* C7 (amended): when a request resolves a checkpoint whose step is in the
\* current run of the session the request names, that step gets the
\* corresponding status, applied giving completed and rejected giving error.
StepFollowsCheckpointInCurrentRun ==
    [][\A r \in Requests :
          LET id == req'[r].checkpointId
              s == req'[r].sessionId
          IN (/\ rejectionPosted(r) \/ approvalFinished(r)
              /\ findStepByCheckpoint(workflows, s, id) # 0) =>
                 /\ checkpoints'[id].status =
                       (IF req'[r].approved THEN "applied" ELSE "rejected")
                 /\ stepOfCheckpointIs(workflows', s, id,
                                       stepStatusFor(checkpoints'[id].status))]_vars

\* C7 witness: an approval was applied and the checkpoint's step, still in the
\* run, is completed
ApprovalReachedStep ==
    \E r \in Requests :
        /\ req[r].pc = "done" /\ req[r].http = 200 /\ req[r].approved
        /\ checkpoints[req[r].checkpointId].status = "applied"
        /\ stepOfCheckpointIs(workflows, req[r].sessionId, req[r].checkpointId,
                              "completed")

\* C8 (as claimed): a turn opens at most maxIterations model calls, and a turn
\* whose every model response was a batch of non-mutation tool calls ends,
\* with the error event, after exactly maxIterations of them.
IterationBound ==
    \A t \in Turns :
        /\ exec[t].llmCalls <= maxIterations
        /\ (exec[t].pc = "ended" /\ exec[t].ordinaryOnly) =>
              /\ exec[t].llmCalls = maxIterations
              /\ exec[t].events[Len(exec[t].events)] = turnError

\* C9 (as claimed): a turn that ended after a response without tool calls has
\* put one assistant entry into memory, has emitted done and no turn-level
\* error, and its root step is completed.
NaturalCompletion ==
    \A t \in Turns :
        (exec[t].pc = "ended" /\ exec[t].natural > 0) =>
            LET mem == memories[exec[t].session]
            IN /\ Cardinality({i \in 1..Len(mem) :
                                  mem[i].role = "assistant"}) = 1
               /\ eventsOf(t, "done") >= 1
               /\ \A i \in 1..Len(exec[t].events) :
                      exec[t].events[i] # turnError
               /\ rootStatus(t) = "completed"

\* C10 (as claimed): a done event is the last event of its turn.
DoneIsLast ==
    \A t \in Turns :
        \A i \in 1..Len(exec[t].events) :
            exec[t].events[i].type = "done" => i = Len(exec[t].events)

\* turn t ended at the max-iteration exit without a natural completion
endedAtCap(t) ==
    /\ exec[t].pc = "ended"
    /\ exec[t].natural = 0
    /\ exec[t].iterations >= maxIterations
    /\ exec[t].events[Len(exec[t].events)] = turnError

\* C11: when the loop of a turn ends because maxIterations iterations ran
\* without natural completion, the turn's root step becomes error, the error
\* event is emitted as the last event and the turn ends; and an execute call
\* that follows for the same session starts a run holding only its own fresh
\* in_progress root.
MaxIterationOutcome ==
    [][\A t \in Turns :
          LET e == exec[t]
              s == e.session
          IN /\ (/\ e.pc = "loop"
                 /\ e.iterations >= maxIterations
                 /\ e.natural = 0
                 /\ exec'[t] # e) =>
                    /\ exec'[t].pc = "ended"
                    /\ exec'[t].events = Append(e.events, turnError)
                    /\ LET i == findStep(workflows', s, e.root)
                       IN /\ i # 0
                          /\ workflows'[s].steps[i].status = "error"
             /\ endedAtCap(t) =>
                   \A u \in Turns :
                      (exec[u].pc = "idle" /\ exec'[u].pc # "idle"
                       /\ exec'[u].session = s) =>
                         /\ exec'[u].pc = "loop"
                         /\ exec'[u].root # e.root
                         /\ workflows'[s].id # workflows[s].id
                         /\ workflows'[s].steps =
                               <<newStep(exec'[u].root, "task", "in_progress",
                                         0, 0)>>]_vars

\* C11 witness: a turn ended at the cap with its root in error, and the next
\* turn of the same session completed normally
CompletedAfterCap ==
    \E t, u \in Turns :
        /\ t < u
        /\ endedAtCap(t)
        /\ exec[u].session = exec[t].session
        /\ exec[u].pc = "ended"
        /\ exec[u].natural > 0
        /\ exec[u].events[Len(exec[u].events)] = doneEvent
        /\ rootStatus(u) = "completed"

\* C12 (as claimed): when the arguments of the tool call being processed are
\* not JSON, one error event for that call is emitted, a tool-error result for
\* it is appended to the prompt state, and the turn goes on with the next call
\* of the batch or, after the last call, with the next iteration.
ParseErrorRecovered ==
    [][\A t \in Turns :
          LET e == exec[t]
              c == Head(e.calls)
          IN (e.pc = "tools" /\ c.args = "malformed" /\ exec'[t] # e) =>
                /\ Len(exec'[t].events) = Len(e.events) + 1
                /\ exec'[t].events[Len(e.events) + 1].type = "error"
                /\ exec'[t].events[Len(e.events) + 1].tool = c.name
                /\ exec'[t].messages = Append(e.messages, toolMessage(e, "error"))
                /\ exec'[t].calls = Tail(e.calls)
                /\ exec'[t].pc = afterCall(e).pc]_vars

\* the call at position j of the current batch of e has its tool message
answered(e, j) ==
    \E k \in 1..Len(e.messages) :
        /\ e.messages[k].role = "tool"
        /\ e.messages[k].tool_call_id = <<e.iterations, j>>

\* a call of the current batch of e failed: its tool-error result is in the
\* prompt state
failedInBatch(e) ==
    \E k \in 1..Len(e.messages) :
        /\ e.messages[k].role = "tool"
        /\ e.messages[k].tool_call_id[1] = e.iterations
        /\ e.messages[k].content = "error"

\* C13 (as claimed): after an ordinary tool of a batch of ordinary calls
\* failed or was not in the registry, every call of the batch is still
\* processed before the turn leaves the batch, and the turn goes on to the
\* next iteration: it ends only at the iteration cap.
ToolFailureRecovered ==
    \A t \in Turns :
        LET e == exec[t]
        IN (/\ e.pc \in {"loop", "ended"}
            /\ failedInBatch(e)
            /\ \A j \in 1..Len(e.batch) : e.batch[j].name # "write_file") =>
               /\ \A j \in 1..Len(e.batch) : answered(e, j)
               /\ e.pc = "ended" => e.iterations >= maxIterations

\* C14: every execute call that has started ends, and the last event of an
\* ended turn is done or error.
TurnTerminates ==
    /\ [](\A t \in Turns :
            exec[t].pc = "ended" =>
               /\ exec[t].events # <<>>
               /\ exec[t].events[Len(exec[t].events)].type \in {"done", "error"})
    /\ \A t \in Turns : (exec[t].pc # "idle") ~> (exec[t].pc = "ended")

\* C14 witness: a turn that called tools and the model twice has ended
TurnEndedAfterTools ==
    \E t \in Turns :
        /\ exec[t].pc = "ended"
        /\ exec[t].llmCalls = 2
        /\ exec[t].toolExecs > 0
        /\ exec[t].events[Len(exec[t].events)].type \in {"done", "error"}

\* C15 (as claimed): a tool execution starts only for the next call of the
\* batch in the order received, after the result or error of every earlier
\* call of the batch was appended to the prompt state; and a model call starts
\* only after every call of the previous batch was processed.
SequentialToolExecution ==
    [][\A t \in Turns :
          LET e == exec[t]
              position == toolCallId(e)[2]
          IN /\ exec'[t].toolExecs > e.toolExecs =>
                   /\ e.calls # <<>>
                   /\ Head(e.calls) = e.batch[position]
                   /\ \A j \in 1..(position - 1) : answered(e, j)
             /\ exec'[t].llmCalls > e.llmCalls =>
                   \A j \in 1..Len(e.batch) : answered(e, j)]_vars

\* the event closes a tool call: a tool_result, or an error that names a tool
closesCall(ev) ==
    \/ ev.type = "tool_result"
    \/ ev.type = "error" /\ ev.tool # "none"

\* C16: in the events of a turn every tool_call is followed at once by exactly
\* one tool_result or error event for the same tool (it is the last event only
\* while its tool is still executing), and every tool_result, like every error
\* naming a tool, follows directly the tool_call of the same tool.
ToolResultFollowsCall ==
    \A t \in Turns :
        LET ev == exec[t].events
            n == Len(ev)
        IN /\ \A i \in 1..n :
                 ev[i].type = "tool_call" =>
                    IF i = n THEN exec[t].pc = "executing"
                    ELSE /\ closesCall(ev[i + 1])
                         /\ ev[i + 1].tool = ev[i].tool
                         /\ i + 2 <= n => ~closesCall(ev[i + 2])
           /\ \A i \in 1..n :
                 closesCall(ev[i]) =>
                    /\ i > 1
                    /\ ev[i - 1].type = "tool_call"
                    /\ ev[i - 1].tool = ev[i].tool

\* C16 witness: a turn holds a tool_call closed by a tool_result and a
\* tool_call closed by an error
CallsClosedBothWays ==
    \E t \in Turns :
        \E i, j \in 2..Len(exec[t].events) :
            /\ exec[t].events[i].type = "tool_result"
            /\ exec[t].events[i - 1].type = "tool_call"
            /\ exec[t].events[j].type = "error"
            /\ exec[t].events[j - 1].type = "tool_call"
            /\ exec[t].events[j].tool = "read_file"

\* the last event of turn t reports a failed model call
llmFailed(t) ==
    LET ev == exec[t].events
    IN /\ ev # <<>>
       /\ ev[Len(ev)].type = "error"
       /\ ev[Len(ev)].reason \in LLMErrors

\* C17: a step of a turn that opens a model call which delivers no response
\* emits one error event carrying the failure's message, marks the turn's root
\* step error and ends the turn; after that the turn opens no model call and
\* takes no further step.
ModelFailureEndsTurn ==
    [][\A t \in Turns :
          LET e == exec[t]
              ev == exec'[t].events
              i == findStep(workflows', e.session, e.root)
          IN /\ (/\ exec'[t].llmCalls > e.llmCalls
                 /\ exec'[t].pc \notin {"tools", "exit"}) =>
                    /\ exec'[t].pc = "ended"
                    /\ exec'[t].llmCalls = e.llmCalls + 1
                    /\ ev[Len(ev)].type = "error"
                    /\ ev[Len(ev)].reason \in LLMErrors
                    /\ \A k \in (Len(e.events) + 1)..(Len(ev) - 1) :
                          ev[k].type = "message"
                    /\ i # 0
                    /\ workflows'[e.session].steps[i].status = "error"
             /\ llmFailed(t) => e.pc = "ended" /\ exec'[t] = e]_vars

\* C17 witness: the second model call of a turn failed after a tool call
FailedSecondModelCall ==
    \E t \in Turns :
        /\ llmFailed(t)
        /\ exec[t].pc = "ended"
        /\ exec[t].llmCalls = 2
        /\ rootStatus(t) = "error"

\* the entries of the kind in the session, in insertion order
entriesOfType(s, type) ==
    LET IsType(m) == m.type = type
    IN SelectSeq(memories[s], IsType)

\* C18 (as claimed): a Recent query with limit N >= 0 returns exactly the
\* last min(N, k) of the k entries of the kind in the session, in insertion
\* order.
RecentReturnsLastN ==
    [][recent' # recent =>
          LET all == entriesOfType(recent'.sessionId, recent'.type)
              k == Len(all)
              n == IF recent'.limit < k THEN recent'.limit ELSE k
          IN recent'.result = SubSeq(all, k - n + 1, k)]_vars

\* C19: in every step a session's entry sequence stays as it is, or gets one
\* entry appended at its end with the entries before it unchanged and in
\* place, or is emptied.
MemoryAppendOnly ==
    [][\A s \in Sessions :
          \/ memories'[s] = memories[s]
          \/ /\ Len(memories'[s]) = Len(memories[s]) + 1
             /\ SubSeq(memories'[s], 1, Len(memories[s])) = memories[s]
          \/ memories'[s] = <<>>]_vars

\* C19 witness: two entries were appended to a session, and the other
\* session was emptied after a query had found entries in it
AppendedAndCleared ==
    \E s \in Sessions :
        /\ Len(memories[s]) = 2
        /\ memories[s][1].role = "assistant"
        /\ memories[s][2].role = "user"
        /\ recent.sessionId = otherSession(s)
        /\ recent.result # <<>>
        /\ memories[otherSession(s)] = <<>>

\* C20: with the turns running one after another, every step a turn adds to
\* its session's run is of kind tool or checkpoint and has the turn's root as
\* parentId, that root being the first step, of kind task, of the same run;
\* so in every run all steps after the first have the run's root as parent.
WorkflowTreeShape ==
    [][/\ \A t \in Turns :
             LET e == exec[t]
                 old == workflows[e.session].steps
                 new == workflows'[e.session].steps
             IN (e.pc # "idle" /\ exec'[t] # e /\ Len(new) > Len(old)) =>
                   /\ new[1].id = e.root
                   /\ new[1].type = "task"
                   /\ \A i \in (Len(old) + 1)..Len(new) :
                         /\ new[i].type \in {"tool", "checkpoint"}
                         /\ new[i].parentId = e.root
       /\ \A s \in Sessions :
             LET steps == workflows'[s].steps
             IN \A i \in 2..Len(steps) :
                   /\ steps[i].type \in {"tool", "checkpoint"}
                   /\ steps[i].parentId = steps[1].id
                   /\ steps[1].type = "task"]_vars

\* C20 witness: the run of a session's second turn holds its root, a tool
\* step and a checkpoint step
RunWithToolAndCheckpoint ==
    \E s \in Sessions :
        LET steps == workflows[s].steps
        IN /\ Len(steps) = 3
           /\ steps[1].id = exec[2].root
           /\ exec[1].session = s
           /\ steps[2].type = "tool"
           /\ steps[3].type = "checkpoint"
           /\ steps[3].parentId = steps[1].id

\* the status in the runs wf of the step with this id ("gone": in no run)
statusOfStep(wf, stepId) ==
    IF \E s \in Sessions : findStep(wf, s, stepId) # 0
    THEN LET s == CHOOSE s \in Sessions : findStep(wf, s, stepId) # 0
         IN wf[s].steps[findStep(wf, s, stepId)].status
    ELSE "gone"

\* C21 (as claimed): a step whose status is completed or error keeps that
\* status in every later step for as long as a run holds it.
StepStatusTerminal ==
    [][\A s \in Sessions :
          \A i \in 1..Len(workflows[s].steps) :
             LET step == workflows[s].steps[i]
             IN step.status \in {"completed", "error"} =>
                   statusOfStep(workflows', step.id) \in {step.status, "gone"}]_vars

\* this step is taken by an operation performed on behalf of session a: a step
\* of a turn of a, of an approval request naming a, or a Clear of a
onBehalfOf(a) ==
    \/ \E t \in Turns : exec'[t] # exec[t] /\ exec'[t].session = a
    \/ \E r \in Requests : req'[r] # req[r] /\ req'[r].sessionId = a
    \/ ClearSession(a)

\* the checkpoints of session b
checkpointsOf(cps, b) == {id \in DOMAIN cps : cps[id].sessionId = b}

\* C22 (as claimed): a step taken on behalf of session a leaves the memory
\* entries, the run and the checkpoints of every other session as they are.
SessionIsolation ==
    [][\A a, b \in Sessions :
          (a # b /\ onBehalfOf(a)) =>
             /\ memories'[b] = memories[b]
             /\ workflows'[b] = workflows[b]
             /\ checkpointsOf(checkpoints', b) = checkpointsOf(checkpoints, b)
             /\ \A id \in checkpointsOf(checkpoints, b) :
                   checkpoints'[id] = checkpoints[id]]_vars

\* the events the step appends to the events of turn t
newEvents(t) ==
    SubSeq(exec'[t].events, Len(exec[t].events) + 1, Len(exec'[t].events))

\* C23 (as claimed): the step that processes a write_file call emits no
\* tool_call event and creates exactly one checkpoint, pending, of the turn's
\* session and the call's path, whose proposed content is the call's content
\* with line breaks normalized and whose original content is the file's current
\* content, or the empty text when the file cannot be read; the
\* approval_required event it emits carries that checkpoint's id, path and
\* both contents.
MutationProposal ==
    [][\A t \in Turns :
          LET e == exec[t]
              c == Head(e.calls)
              current == files[<<e.session, c.path>>]
              created == DOMAIN checkpoints' \ DOMAIN checkpoints
          IN (/\ e.pc = "tools"
              /\ c.name = "write_file"
              /\ c.args # "malformed"
              /\ exec'[t] # e) =>
                /\ \A i \in 1..Len(newEvents(t)) :
                      newEvents(t)[i].type # "tool_call"
                /\ Cardinality(created) = 1
                /\ \A id \in created :
                      LET cp == checkpoints'[id]
                      IN /\ cp.status = "pending"
                         /\ cp.sessionId = e.session
                         /\ cp.filePath = c.path
                         /\ cp.modifiedContent = fixNewlines(c.content)
                         /\ cp.originalContent =
                               (IF current = Missing THEN <<>> ELSE current)
                         /\ \E i \in 1..Len(newEvents(t)) :
                               LET ev == newEvents(t)[i]
                               IN /\ ev.type = "approval_required"
                                  /\ ev.checkpointId = id
                                  /\ ev.data.filePath = cp.filePath
                                  /\ ev.data.originalContent = cp.originalContent
                                  /\ ev.data.modifiedContent = cp.modifiedContent]_vars

\* C24 (as claimed): every file write of an approval request writes the
\* proposed content of the checkpoint it names, with real line breaks, at that
\* checkpoint's filePath in the workspace of that checkpoint's session.
ApprovedWrite ==
    \A i \in 1..Len(writes) :
        writes[i].by = "approve" =>
            LET cp == checkpoints[writes[i].checkpointId]
            IN /\ writes[i].content = fixNewlines(cp.modifiedContent)
               /\ writes[i].path = cp.filePath
               /\ writes[i].sessionId = cp.sessionId

\* turn u starts in this step: execute calls startWorkflow
turnStarts(u) == exec[u].pc = "idle" /\ exec'[u].pc # "idle"

\* C25: the step that starts a run for a session leaves that session with a
\* run of a new id holding exactly one step, the new root of kind task and
\* status in_progress; no step of the session's earlier run is in any run any
\* more, and the runs of the other sessions are unchanged.
RunReplacement ==
    [][\A u \in Turns :
          LET s == exec'[u].session
          IN turnStarts(u) =>
                /\ workflows'[s].id # 0
                /\ \A o \in Sessions : workflows'[s].id # workflows[o].id
                /\ workflows'[s].steps =
                      <<newStep(exec'[u].root, "task", "in_progress", 0, 0)>>
                /\ \A i \in 1..Len(workflows[s].steps) :
                      statusOfStep(workflows', workflows[s].steps[i].id) = "gone"
                /\ \A o \in Sessions \ {s} : workflows'[o] = workflows[o]]_vars

\* C25 witness: the second turn of a session has started after the first one
\* had added a tool step to the session's run, and the run holds the second
\* turn's root only
RunReplaced ==
    /\ exec[2].pc # "idle"
    /\ exec[2].session = exec[1].session
    /\ exec[1].toolExecs > 0
    /\ workflows[exec[2].session].steps =
          <<newStep(exec[2].root, "task", "in_progress", 0, 0)>>

\* C26 (as claimed): once a turn has emitted approval_required, the memory of
\* its session holds a tool-operation record of the write_file proposal.
ProposalRecorded ==
    \A t \in Turns :
        eventsOf(t, "approval_required") > 0 =>
            \E i \in 1..Len(memories[exec[t].session]) :
                LET m == memories[exec[t].session][i]
                IN /\ m.type = "file_operation"
                   /\ m.content = <<"write_file">>

\* C27 (as claimed): the prompt a turn starts with is the system instruction,
\* then at most historyLimit conversation entries the session held when the
\* turn began, the latest ones in insertion order, then the new user message,
\* which so occurs once.
PromptConstruction ==
    [][\A u \in Turns :
          turnStarts(u) =>
             LET prompt == exec'[u].messages
                 before == entriesOfType(exec'[u].session, "conversation")
                 n == Len(prompt) - 2
                 k == Len(before)
             IN /\ n >= 0 /\ n <= historyLimit /\ n <= k
                /\ prompt[1] = systemPrompt
                /\ prompt[n + 2] = userMessage
                /\ \A i \in 1..n :
                      prompt[i + 1] = message(before[k - n + i].role,
                                              before[k - n + i].content,
                                              NoCallId, "")]_vars

\* the event stream of turn t ends in this step
turnEnds(t) == exec[t].pc # "ended" /\ exec'[t].pc = "ended"

\* C28: when the event stream of a turn ends, by natural completion, at the
\* iteration cap or by an exception, the turn's root step is completed or
\* error and no tool step the turn created is in_progress.
NoStepLeftRunning ==
    [][\A t \in Turns :
          turnEnds(t) =>
             LET steps == workflows'[exec[t].session].steps
             IN /\ statusOfStep(workflows', exec[t].root)
                      \in {"completed", "error"}
                /\ \A i \in 1..Len(steps) :
                      (steps[i].type = "tool" /\ steps[i].parentId = exec[t].root)
                         => steps[i].status \in {"completed", "error"}]_vars

\* C28 witness: a turn ended by an exception after one of its tools had
\* returned and another had failed; its root and both tool steps are closed
EndedWithClosedSteps ==
    \E t \in Turns :
        LET steps == workflows[exec[t].session].steps
        IN /\ exec[t].pc = "ended"
           /\ exec[t].events[Len(exec[t].events)].reason = "not JSON"
           /\ rootStatus(t) = "error"
           /\ \E i, j \in 1..Len(steps) :
                 /\ steps[i].type = "tool" /\ steps[i].status = "completed"
                 /\ steps[j].type = "tool" /\ steps[j].status = "error"

\* the step status that corresponds to a checkpoint status
stepStatusOf(checkpointStatus) ==
    CASE checkpointStatus = "pending" -> "pending"
      [] checkpointStatus = "applied" -> "completed"
      [] checkpointStatus = "rejected" -> "error"

\* C29 (as claimed): for every checkpoint step in a session's current run the
\* checkpoint it names exists, belongs to that session, and has the status
\* that corresponds to the step's.
CheckpointAndStepAgree ==
    \A s \in Sessions :
        \A i \in 1..Len(workflows[s].steps) :
            LET step == workflows[s].steps[i]
            IN step.type = "checkpoint" =>
                  /\ has(checkpoints, step.checkpointId)
                  /\ checkpoints[step.checkpointId].sessionId = s
                  /\ step.status =
                        stepStatusOf(checkpoints[step.checkpointId].status)

\* C30 (as claimed): also when the turns of a session overlap, every step a
\* turn adds to the session's run finds the step named by its parentId in that
\* run, a natural completion leaves the turn's root completed, and a turn that
\* ends with an error event leaves its root in error.
OverlappingTurns ==
    [][\A t \in Turns :
          LET e == exec[t]
              old == workflows[e.session].steps
              new == workflows'[e.session].steps
              ev == exec'[t].events
          IN (e.pc # "idle" /\ exec'[t] # e) =>
                /\ Len(new) > Len(old) =>
                      \A i \in (Len(old) + 1)..Len(new) :
                         findStep(workflows', e.session, new[i].parentId) # 0
                /\ exec'[t].natural # e.natural =>
                      statusOfStep(workflows', e.root) = "completed"
                /\ (turnEnds(t) /\ ev[Len(ev)].type = "error") =>
                      statusOfStep(workflows', e.root) = "error"]_vars

====
